---- MODULE Spec2Model ----
(***************************************************************************)
(* The bus core of usbip-device: the socket handler (handle_socket), the   *)
(* attach protocol (handle_op), the URB protocol (handle_cmd) and the IN   *)
(* drain (try_send_pending) of src/src/handler.rs, with the response       *)
(* header of src/src/op.rs.  The device-stack side of the bus (endpoint    *)
(* allocation, write, is_rts, get_endpoint/get_in/get_out) lives in        *)
(* the crate root, which is not among the source files; it is modelled     *)
(* from the design document.                                               *)
(*                                                                         *)
(* Every action is one whole call: one handle_socket (one poll step) with  *)
(* the outcome of its read, or one device-stack write.  A panic            *)
(* (unwrap on None/Err, panic!, assert) sets `panicked`; nothing runs      *)
(* after it.  A handle_socket left waiting in read_exact sets `blocked`;    *)
(* it goes on when the client sends the rest of the frame or closes.       *)
(* SpecDrain runs the drain loop alone, on every queue and request.        *)
(* OpResponse::to_vec is modelled by the 8-byte header it                  *)
(* builds (op.rs 87-100); the fixed-slot copies of the record body         *)
(* (op.rs 102-132) are not modelled.                                       *)
(***************************************************************************)
EXTENDS Integers, Sequences, FiniteSets, TLC

\* ------------------------------------------------------------- bounds
MaxPacket == 2     \* max_packet_size of every allocated direction
MaxLen == 3        \* largest transfer_buffer_length / OUT payload length
MaxCmds == 2       \* CMD_SUBMIT frames processed in one run
MaxWrites == 2     \* device-stack writes in one run
MaxConns == 2      \* connections accepted in one run
MaxLists == 1      \* DEVLISTs counted on one connection (the count saturates)
MaxChunks == 3     \* chunks on the IN queue a drain is started on

\* -------------------------------------------------- program constants
None == -1                 \* Option::None of bytes_requested
CMD_SUBMIT == 1
RET_SUBMIT == 3
CMD_UNLINK == 2            \* a URB command the decoder does not know
HEADER_LEN == 12           \* bytes of the URB header
OP_REQ_DEVLIST == 32773    \* 0x8005
OP_REQ_IMPORT == 32771     \* 0x8003
OP_REP_DEVLIST == 5        \* 0x0005
OP_REP_IMPORT == 3         \* 0x0003
RET_DEVID == 2
RET_DIRECTION == 0
DIR_OUT == 0
DIR_IN == 1
USBIP_VERSION == 273       \* 0x0111

BUS_ID == "1-1"
BusIds == {"1-1", "2-2"}                 \* bus ids a client may ask for
DevIds == {65538}                        \* devid a client sends: busnum 1, devnum 2
ZeroSetup == <<0, 0, 0, 0, 0, 0, 0, 0>>
GetDescriptor == <<128, 6, 0, 1, 0, 0, 18, 0>>
Setups == {ZeroSetup, GetDescriptor}
Seqnums == {1, 2}                        \* seqnums a client may send

\* ------------------------------------------- endpoint configuration
\* What the device stack allocated before polling: endpoint 0 is the control
\* endpoint, 1 an OUT-only endpoint, 2 an IN-only endpoint, 3 is not allocated.
Eps == 0..3
HasIn == {0, 2}
HasOut == {0, 1}
Allocated == HasIn \cup HasOut
max_packet_size(e) == MaxPacket

VARIABLES
  connection,       \* handler.connection: "None" | "Some"
  reset,            \* UsbIpBusInner.reset
  panicked,         \* the bus thread has panicked
  blocked,          \* handle_socket is inside a blocking read_exact
  client,           \* the peer of the stream: "none" | "open" | "closed"
  seqnum,           \* ep.seqnum, per endpoint
  setup_flag,       \* ep.setup_flag
  bytes_requested,  \* ep.bytes_requested: None or the outstanding length
  in_data,          \* IN direction's data: queue of chunks
  out_data,         \* OUT direction's data: queue of chunks
  \* ---- history (observation only; no action reads it in a guard)
  last,             \* name of the last step
  req,              \* the request the last step decoded (op or cmd), or <<>>
  wire,             \* the frames the last step wrote to the socket
  imported,         \* an IMPORT was handled on the current connection
  lists,            \* DEVLISTs handled on the current connection
  urb,              \* per endpoint: the last IN CMD_SUBMIT recorded on it
  urb_rets,         \* per endpoint: RET_SUBMITs emitted for urb[e]
  written,          \* per endpoint: number of bytes the device stack wrote
  delivered,        \* per endpoint: concatenated RET_SUBMIT payloads
  ncmds, nwrites, nconns,
  target            \* the endpoint the client and the device class of this run use

prog == <<connection, reset, panicked, blocked, client, seqnum, setup_flag,
          bytes_requested, in_data, out_data>>
hist == <<last, req, wire, imported, lists, urb, urb_rets, written,
          delivered, ncmds, nwrites, nconns, target>>
vars == <<prog, hist>>

\* ------------------------------------------------------------ helpers
Min(a, b) == IF a < b THEN a ELSE b

RECURSIVE Flatten(_)
Flatten(q) == IF q = <<>> THEN <<>> ELSE Head(q) \o Flatten(Tail(q))

IsPrefix(s, t) == Len(s) <= Len(t) /\ SubSeq(t, 1, Len(s)) = s

\* The bytes the device stack writes to an endpoint are numbered: the k-th
\* byte written is k.  Bytes(a, n) is the run of n bytes after the first a.
Bytes(a, n) == [i \in 1..n |-> a + i]

NoUrb == [seqnum |-> 0, devid |-> 0, direction |-> 0, ep |-> 0]

\* ----------------------------------------------------- wire records
\* UsbIpResponse of try_send_pending: header, UsbIpRetSubmit and data.
UsbIpResponse(seq, ep_addr, out_buf) ==
  [kind |-> "urb", command |-> RET_SUBMIT, seqnum |-> seq, devid |-> RET_DEVID,
   direction |-> RET_DIRECTION, ep |-> ep_addr, status |-> 0,
   actual_length |-> Len(out_buf), start_frame |-> 0, number_of_packets |-> 0,
   error_count |-> 0, data |-> out_buf]

\* The OpHeader OpResponse::to_vec serialises first: the reply code of the
\* response kind, the request's version, status 0.
to_vec(version, cmd) ==
  [kind |-> "op", version |-> version,
   command |-> IF cmd = "ListDevices" THEN OP_REP_DEVLIST ELSE OP_REP_IMPORT,
   status |-> 0]

\* A frame as observed on the socket, with the phase flag the step began in.
OnWire(frames, in_reset) ==
  [i \in 1..Len(frames) |-> [frame |-> frames[i], in_reset |-> in_reset]]

\* ------------------------------------------------ endpoint buffer
get_endpoint_ok(ep_addr) == ep_addr \in Allocated
get_in_ok(ep_addr) == ep_addr \in HasIn
get_out_ok(ep_addr) == ep_addr \in HasOut

\* ready_to_send: set by the write of a chunk shorter than max_packet_size,
\* cleared when the queue empties.  A write is refused while it holds, so it
\* holds exactly when the queue is non-empty and its last chunk is short.
is_rts(data, mps) == data /= <<>> /\ Len(data[Len(data)]) < mps

\* chunks with the trailing short chunk left out.
RECURSIVE chunks_drop_short(_, _)
chunks_drop_short(data, n) ==
  IF Len(data) < n THEN <<>>
  ELSE <<SubSeq(data, 1, n)>> \o chunks_drop_short(SubSeq(data, n + 1, Len(data)), n)

\* slice::chunks: consecutive chunks of n elements, the last possibly shorter;
\* no chunk for an empty slice.
RECURSIVE chunks(_, _)
chunks(data, n) ==
  IF data = <<>> THEN <<>>
  ELSE IF Len(data) <= n THEN <<data>>
  ELSE <<SubSeq(data, 1, n)>> \o chunks(SubSeq(data, n + 1, Len(data)), n)

\* The drain loop reading at most one byte of each popped chunk.
RECURSIVE drain_one_byte(_, _, _)
drain_one_byte(data, out_buf, requested) ==
  IF data = <<>> THEN [out_buf |-> out_buf, data |-> data, ok |-> TRUE]
  ELSE
    LET d == Head(data)
        bytes_left == requested - Len(out_buf)
        bytes_to_read == Min(Min(Len(d), bytes_left), 1)
        out2 == out_buf \o SubSeq(d, 1, bytes_to_read)
    IN IF bytes_left < 0 THEN [out_buf |-> out_buf, data |-> Tail(data), ok |-> FALSE]
       ELSE IF bytes_to_read /= Len(d)
       THEN [out_buf |-> out2,
             data |-> <<SubSeq(d, bytes_to_read + 1, Len(d))>> \o Tail(data),
             ok |-> Len(out2) = requested]
       ELSE drain_one_byte(Tail(data), out2, requested)

\* The drain loop reading every popped chunk whole, without the min.
RECURSIVE drain_whole_chunks(_, _, _)
drain_whole_chunks(data, out_buf, requested) ==
  IF data = <<>> THEN [out_buf |-> out_buf, data |-> data, ok |-> TRUE]
  ELSE
    LET d == Head(data)
        bytes_left == requested - Len(out_buf)
        out2 == out_buf \o d
    IN IF bytes_left < 0 THEN [out_buf |-> out_buf, data |-> Tail(data), ok |-> FALSE]
       ELSE drain_whole_chunks(Tail(data), out2, requested)

\* The drain loop without the push_front of a partly read chunk's tail.
RECURSIVE drain_drop_tail(_, _, _)
drain_drop_tail(data, out_buf, requested) ==
  IF data = <<>> THEN [out_buf |-> out_buf, data |-> data, ok |-> TRUE]
  ELSE
    LET d == Head(data)
        bytes_to_read == Min(Len(d), requested - Len(out_buf))
        out2 == out_buf \o SubSeq(d, 1, bytes_to_read)
    IN IF bytes_to_read /= Len(d)
       THEN [out_buf |-> out2, data |-> Tail(data), ok |-> TRUE]
       ELSE drain_drop_tail(Tail(data), out2, requested)

\* The drain loop of try_send_pending: pops chunks into out_buf, never more
\* than requested bytes; a chunk read only in part has its tail pushed back to
\* the front and ends the loop.  `ok` is FALSE when the subtraction underflows
\* or the assert_eq fails.
RECURSIVE drain(_, _, _)
drain(data, out_buf, requested) ==
  IF data = <<>> THEN [out_buf |-> out_buf, data |-> data, ok |-> TRUE]
  ELSE
    LET d == Head(data)
        bytes_left == requested - Len(out_buf)
        bytes_to_read == Min(Len(d), bytes_left)
        out2 == out_buf \o SubSeq(d, 1, bytes_to_read)
    IN IF bytes_left < 0 THEN [out_buf |-> out_buf, data |-> Tail(data), ok |-> FALSE]
       ELSE IF bytes_to_read /= Len(d)
       THEN [out_buf |-> out2,
             data |-> <<SubSeq(d, bytes_to_read + 1, Len(d))>> \o Tail(data),
             ok |-> Len(out2) = requested]
       ELSE drain(Tail(data), out2, requested)

\* try_send_pending without the test of is_rts.
try_send_pending_ignores_rts(ep_addr, br, data, seq, conn, write_ok) ==
  LET quiet == [data |-> data, frames |-> <<>>, panic |-> FALSE] IN
  IF ~get_endpoint_ok(ep_addr) THEN quiet
  ELSE IF br = None THEN quiet
  ELSE IF ~get_in_ok(ep_addr) THEN quiet
  ELSE
    LET r == drain(data, <<>>, br) IN
    IF ~r.ok \/ conn = "None" \/ ~write_ok
    THEN [data |-> r.data, frames |-> <<>>, panic |-> TRUE]
    ELSE [data |-> r.data,
          frames |-> <<UsbIpResponse(seq, ep_addr, r.out_buf)>>,
          panic |-> FALSE]

\* try_send_pending(ep_addr) on an endpoint whose bytes_requested, IN queue and
\* seqnum are br, data, seq; conn is handler.connection and write_ok the
\* outcome of write_all.  Gives the IN queue left, the frames written and
\* whether the call panicked.
try_send_pending(ep_addr, br, data, seq, conn, write_ok) ==
  LET quiet == [data |-> data, frames |-> <<>>, panic |-> FALSE] IN
  IF ~get_endpoint_ok(ep_addr) THEN quiet
  ELSE IF br = None THEN quiet
  ELSE IF ~get_in_ok(ep_addr) THEN quiet
  ELSE IF ~is_rts(data, max_packet_size(ep_addr)) THEN quiet
  ELSE
    LET r == drain(data, <<>>, br) IN
    IF ~r.ok \/ conn = "None" \/ ~write_ok
    THEN [data |-> r.data, frames |-> <<>>, panic |-> TRUE]
    ELSE [data |-> r.data,
          frames |-> <<UsbIpResponse(seq, ep_addr, r.out_buf)>>,
          panic |-> FALSE]

\* Outcomes of write_all on the stream: it succeeds while the peer is open;
\* once the peer has closed, the write may still be buffered or fail.
WriteOutcomes == IF client = "closed" THEN BOOLEAN ELSE {TRUE}

\* ------------------------------------------------------------ client
\* Requests a client may send.  OUT payload bytes are numbered by frame, so
\* that no two payload bytes of a run are equal.
Directions == {DIR_OUT, DIR_IN, 2}

OpRequests ==
  [command : {OP_REQ_DEVLIST}, version : {USBIP_VERSION}, bus_id : {""},
   lists_before : {0}]
  \cup [command : {OP_REQ_IMPORT}, version : {USBIP_VERSION}, bus_id : BusIds,
         lists_before : {0}]

CmdRequests ==
  { [command |-> CMD_SUBMIT, seqnum |-> s, devid |-> dv, direction |-> d,
     ep |-> e, transfer_buffer_length |-> n, setup |-> su,
     data |-> IF d = DIR_OUT THEN Bytes(10 * (ncmds + 1), n) ELSE <<>>] :
      s \in Seqnums, dv \in DevIds, d \in Directions, e \in Eps,
      n \in 0..MaxLen, su \in Setups }

\* The client closes its end of the stream.
ClientClose ==
  /\ ~panicked /\ client = "open"
  /\ client' = "closed"
  /\ UNCHANGED target
  /\ last' = "close" /\ req' = <<>> /\ wire' = <<>>
  /\ UNCHANGED <<connection, reset, panicked, blocked, seqnum, setup_flag,
                 bytes_requested, in_data, out_data>>
  /\ UNCHANGED <<imported, lists, urb, urb_rets, written, delivered, ncmds, nwrites, nconns, target>>

\* -------------------------------------------------- handle_socket
\* No connection: listener.accept() returns a new stream.
Accept ==
  /\ ~panicked /\ connection = "None" /\ nconns < MaxConns
  /\ connection' = "Some"
  /\ client' = "open"
  /\ nconns' = nconns + 1
  /\ imported' = FALSE /\ lists' = 0
  /\ UNCHANGED target
  /\ last' = "accept" /\ req' = <<>> /\ wire' = <<>>
  /\ UNCHANGED <<reset, panicked, blocked, seqnum, setup_flag,
                 bytes_requested, in_data, out_data>>
  /\ UNCHANGED <<urb, urb_rets, written, delivered,
                 ncmds, nwrites>>

\* Reset phase, OpRequest::read fails NotConnected: the stream is dropped.
EofReset ==
  /\ ~panicked /\ connection = "Some" /\ reset /\ client = "closed"
  /\ connection' = "None"
  /\ client' = "none"
  /\ UNCHANGED target
  /\ last' = "eof" /\ req' = <<>> /\ wire' = <<>>
  /\ UNCHANGED <<reset, panicked, blocked, seqnum, setup_flag,
                 bytes_requested, in_data, out_data>>
  /\ UNCHANGED <<imported, lists, urb, urb_rets, written, delivered, ncmds, nwrites, nconns, target>>

\* EofAttached without the return to the reset phase.
EofAttached_keeps_phase ==
  /\ ~panicked /\ connection = "Some" /\ ~reset /\ client = "closed"
  /\ ~blocked
  /\ connection' = "None"
  /\ client' = "none"
  /\ UNCHANGED target
  /\ last' = "eof" /\ req' = <<>> /\ wire' = <<>>
  /\ UNCHANGED <<reset, panicked, blocked, seqnum, setup_flag,
                 bytes_requested, in_data, out_data>>
  /\ UNCHANGED <<imported, lists, urb, urb_rets, written, delivered,
                 ncmds, nwrites, nconns>>

\* Attached phase, UsbIpRequest::read reads 0 bytes (NotConnected): back to
\* the initial state.
EofAttached ==
  /\ ~panicked /\ connection = "Some" /\ ~reset /\ client = "closed"
  /\ ~blocked
  /\ reset' = TRUE
  /\ connection' = "None"
  /\ client' = "none"
  /\ UNCHANGED target
  /\ last' = "eof" /\ req' = <<>> /\ wire' = <<>>
  /\ UNCHANGED <<panicked, blocked, seqnum, setup_flag, bytes_requested,
                 in_data, out_data>>
  /\ UNCHANGED <<imported, lists, urb, urb_rets, written, delivered, ncmds, nwrites, nconns, target>>

\* handle_op leaving the reset phase on every request.
handle_op_reset_always_leaves(op, rst) == FALSE

\* handle_op: the response of a decoded op request and the phase after it.
handle_op_reset(op, rst) == IF op.command = OP_REQ_DEVLIST THEN rst ELSE FALSE

handle_op_response(op) ==
  to_vec(op.version,
         IF op.command = OP_REQ_DEVLIST THEN "ListDevices" ELSE "ConnectDevice")

\* Reset phase, OpRequest::read decodes a request: handle_op answers it.
HandleOp(op) ==
  /\ ~panicked /\ connection = "Some" /\ reset /\ client = "open"
  /\ reset' = handle_op_reset(op, reset)
  /\ wire' = OnWire(<<handle_op_response(op)>>, reset)
  /\ UNCHANGED target
  /\ last' = "op" /\ req' = [op EXCEPT !.lists_before = lists]
  /\ lists' = IF op.command = OP_REQ_DEVLIST THEN Min(lists + 1, MaxLists) ELSE 0
  /\ imported' = IF op.command = OP_REQ_IMPORT THEN TRUE ELSE imported
  /\ UNCHANGED <<connection, panicked, blocked, client, seqnum, setup_flag,
                 bytes_requested, in_data, out_data>>
  /\ UNCHANGED <<urb, urb_rets, written, delivered,
                 ncmds, nwrites, nconns>>

\* handle_cmd going on with the endpoint's slot when get_endpoint fails.
handle_cmd_skips_lookup(h, st, conn) ==
  LET e == h.ep
      has_setup == h.setup /= ZeroSetup
      panic_setup == has_setup /\ ~get_out_ok(e)
      st1 == [st EXCEPT !.seqnum = h.seqnum,
                        !.out_data = IF has_setup /\ ~panic_setup
                                     THEN Append(@, h.setup) ELSE @,
                        !.setup_flag = IF has_setup /\ ~panic_setup
                                       THEN TRUE ELSE @]
  IN
  IF panic_setup \/ h.direction \notin {DIR_OUT, DIR_IN}
     \/ (h.direction = DIR_OUT /\ ~get_out_ok(e))
  THEN [st |-> st1, frames |-> <<>>, panic |-> TRUE, found |-> TRUE]
  ELSE IF h.direction = DIR_OUT
  THEN [st |-> [st1 EXCEPT !.out_data = @ \o chunks(h.data, max_packet_size(e))],
        frames |-> <<>>, panic |-> FALSE, found |-> TRUE]
  ELSE LET br == h.transfer_buffer_length
           t == try_send_pending(e, br, st1.in_data, st1.seqnum, conn, TRUE)
       IN [st |-> [st1 EXCEPT !.bytes_requested = br, !.in_data = t.data],
           frames |-> t.frames, panic |-> t.panic, found |-> TRUE]

\* handle_cmd on the endpoint the frame names, whose fields are st (seqnum,
\* setup_flag, bytes_requested, in_data, out_data).  Gives the endpoint's
\* fields after the call, the frames written and whether the call panicked.
handle_cmd(h, st, conn) ==
  LET e == h.ep
      mps == max_packet_size(e)
      has_setup == h.setup /= ZeroSetup
      \* ep.get_out().unwrap() of the setup branch
      panic_setup == has_setup /\ ~get_out_ok(e)
      out1 == IF has_setup /\ ~panic_setup
              THEN Append(st.out_data, h.setup) ELSE st.out_data
      flag1 == IF has_setup /\ ~panic_setup THEN TRUE ELSE st.setup_flag
      st1 == [st EXCEPT !.seqnum = h.seqnum, !.out_data = out1,
                        !.setup_flag = flag1]
  IN
  IF ~get_endpoint_ok(e)
  THEN [st |-> st, frames |-> <<>>, panic |-> FALSE, found |-> FALSE]
  ELSE IF panic_setup
  THEN [st |-> st1, frames |-> <<>>, panic |-> TRUE, found |-> TRUE]
  ELSE IF h.direction = DIR_OUT
  THEN IF ~get_out_ok(e)
       THEN [st |-> st1, frames |-> <<>>, panic |-> TRUE, found |-> TRUE]
       ELSE [st |-> [st1 EXCEPT !.out_data = out1 \o chunks(h.data, mps)],
             frames |-> <<>>, panic |-> FALSE, found |-> TRUE]
  ELSE IF h.direction = DIR_IN
  THEN LET br == h.transfer_buffer_length
           t == try_send_pending(e, br, st1.in_data, st1.seqnum, conn, TRUE)
       IN [st |-> [st1 EXCEPT !.bytes_requested = br, !.in_data = t.data],
           frames |-> t.frames, panic |-> t.panic, found |-> TRUE]
  ELSE [st |-> st1, frames |-> <<>>, panic |-> TRUE, found |-> TRUE]

\* UsbIpRequest::read up to the dispatch on the command: the outcome of the
\* non-blocking read of the header (bytes_read bytes arrive) and of the match
\* on header.command.  "Body" is the CMD_SUBMIT arm, which goes on to
\* read_exact the 36-byte body and an OUT frame's payload on a blocking
\* socket.
UsbIpRequest_read(bytes_read, command) ==
  IF bytes_read = HEADER_LEN
  THEN IF command = CMD_SUBMIT THEN "Body" ELSE "InvalidInput"
  ELSE IF bytes_read = 0 THEN "NotConnected"
  ELSE "InvalidInput"

HeaderReads == {4, HEADER_LEN}           \* bytes a short or full header read gets
UrbCommands == {CMD_SUBMIT, CMD_UNLINK}  \* command codes a client may send

\* The frame h is one whose read was waiting for `part` (the body, or the
\* payload that only an OUT frame with a non-zero length has).
CompletesRead(h, part) ==
  part = "payload" => (h.direction = DIR_OUT /\ h.transfer_buffer_length > 0)

EpState(e) ==
  [seqnum |-> seqnum[e], setup_flag |-> setup_flag[e],
   bytes_requested |-> bytes_requested[e], in_data |-> in_data[e],
   out_data |-> out_data[e]]

\* The payload bytes of the frames written for endpoint e.
Payload(frames) == IF frames = <<>> THEN <<>> ELSE frames[1].data

\* Attached phase, UsbIpRequest::read decodes a CMD_SUBMIT: handle_cmd.
HandleCmd(h) ==
  /\ ~panicked /\ connection = "Some" /\ ~reset /\ client = "open"
  /\ ncmds < MaxCmds
  /\ blocked => CompletesRead(h, req.withheld)
  /\ blocked' = FALSE
  /\ LET e == h.ep
         r == handle_cmd(h, EpState(e), connection)
         recorded_in == r.found /\ h.direction = DIR_IN
                        /\ r.st.bytes_requested = h.transfer_buffer_length
                        /\ ~(h.setup /= ZeroSetup /\ ~get_out_ok(e))
     IN
     /\ seqnum' = [seqnum EXCEPT ![e] = r.st.seqnum]
     /\ setup_flag' = [setup_flag EXCEPT ![e] = r.st.setup_flag]
     /\ bytes_requested' = [bytes_requested EXCEPT ![e] = r.st.bytes_requested]
     /\ in_data' = [in_data EXCEPT ![e] = r.st.in_data]
     /\ out_data' = [out_data EXCEPT ![e] = r.st.out_data]
     /\ panicked' = r.panic
     /\ wire' = OnWire(r.frames, reset)
     /\ req' = [h EXCEPT !.command = CMD_SUBMIT]
     /\ urb' = IF recorded_in
               THEN [urb EXCEPT ![e] = [seqnum |-> h.seqnum, devid |-> h.devid,
                                        direction |-> h.direction, ep |-> h.ep]]
               ELSE urb
     /\ urb_rets' = [urb_rets EXCEPT ![e] =
                       (IF recorded_in THEN 0 ELSE @) + Len(r.frames)]
     /\ delivered' = [delivered EXCEPT ![e] = @ \o Payload(r.frames)]
  /\ ncmds' = ncmds + 1
  /\ UNCHANGED target
  /\ last' = "cmd"
  /\ UNCHANGED <<connection, reset, client>>
  /\ UNCHANGED <<imported, lists, written, nwrites, nconns>>

\* Attached phase, UsbIpRequest::read fails with InvalidInput (a short header
\* or an unknown command): handle_socket panics on the unexpected error.
ReadFails(bytes_read, command) ==
  /\ ~panicked /\ connection = "Some" /\ ~reset /\ client = "open"
  /\ ~blocked
  /\ UsbIpRequest_read(bytes_read, command) = "InvalidInput"
  /\ panicked' = TRUE
  /\ last' = "malformed"
  /\ req' = [bytes_read |-> bytes_read, command |-> command]
  /\ wire' = <<>>
  /\ UNCHANGED <<connection, reset, blocked, client, seqnum, setup_flag,
                 bytes_requested, in_data, out_data>>
  /\ UNCHANGED <<imported, lists, urb, urb_rets, written, delivered, ncmds,
                 nwrites, nconns, target>>

\* Attached phase, the header of a CMD_SUBMIT has arrived but the body, or the
\* payload of an OUT frame, has not: read_exact waits on the blocking socket
\* and handle_socket does not return.
ReadBlocks(part) ==
  /\ ~panicked /\ connection = "Some" /\ ~reset /\ client = "open"
  /\ ~blocked /\ ncmds < MaxCmds
  /\ UsbIpRequest_read(HEADER_LEN, CMD_SUBMIT) = "Body"
  /\ blocked' = TRUE
  /\ last' = "partial"
  /\ req' = [withheld |-> part]
  /\ wire' = <<>>
  /\ UNCHANGED <<connection, reset, panicked, client, seqnum, setup_flag,
                 bytes_requested, in_data, out_data>>
  /\ UNCHANGED <<imported, lists, urb, urb_rets, written, delivered, ncmds,
                 nwrites, nconns, target>>

\* The client closed while read_exact was waiting: read_exact fails with
\* UnexpectedEof, which handle_socket panics on.
EofBlocked ==
  /\ ~panicked /\ blocked /\ client = "closed"
  /\ panicked' = TRUE
  /\ blocked' = FALSE
  /\ last' = "eof_midframe" /\ req' = <<>> /\ wire' = <<>>
  /\ UNCHANGED <<connection, reset, client, seqnum, setup_flag,
                 bytes_requested, in_data, out_data>>
  /\ UNCHANGED <<imported, lists, urb, urb_rets, written, delivered, ncmds,
                 nwrites, nconns, target>>

\* ------------------------------------------------- device stack
\* UsbBus::write(ep, buf) with a buf of n bytes: refused (WouldBlock) while
\* the IN direction is ready_to_send; otherwise the chunk is queued and
\* try_send_pending runs.
Write(e, n, write_ok) ==
  /\ ~panicked /\ ~blocked /\ nwrites < MaxWrites
  /\ get_endpoint_ok(e) /\ get_in_ok(e)
  /\ ~is_rts(in_data[e], max_packet_size(e))
  /\ n <= max_packet_size(e)
  /\ LET data1 == Append(in_data[e], Bytes(written[e], n))
         t == try_send_pending(e, bytes_requested[e], data1, seqnum[e],
                               connection, write_ok)
     IN
     /\ in_data' = [in_data EXCEPT ![e] = t.data]
     /\ panicked' = t.panic
     /\ wire' = OnWire(t.frames, reset)
     /\ urb_rets' = [urb_rets EXCEPT ![e] = @ + Len(t.frames)]
     /\ delivered' = [delivered EXCEPT ![e] = @ \o Payload(t.frames)]
  /\ written' = [written EXCEPT ![e] = @ + n]
  /\ nwrites' = nwrites + 1
  /\ UNCHANGED target
  /\ last' = "write" /\ req' = [ep |-> e, len |-> n]
  /\ UNCHANGED <<connection, reset, blocked, client, seqnum, setup_flag,
                 bytes_requested, out_data>>
  /\ UNCHANGED <<imported, lists, urb, ncmds, nconns>>

Init ==
  /\ connection = "None"
  /\ reset = TRUE
  /\ panicked = FALSE
  /\ blocked = FALSE
  /\ client = "none"
  /\ seqnum = [e \in Eps |-> 0]
  /\ setup_flag = [e \in Eps |-> FALSE]
  /\ bytes_requested = [e \in Eps |-> None]
  /\ in_data = [e \in Eps |-> <<>>]
  /\ out_data = [e \in Eps |-> <<>>]
  /\ last = "init"
  /\ req = <<>>
  /\ wire = <<>>
  /\ imported = FALSE
  /\ lists = 0
  /\ urb = [e \in Eps |-> NoUrb]
  /\ urb_rets = [e \in Eps |-> 0]
  /\ written = [e \in Eps |-> 0]
  /\ delivered = [e \in Eps |-> <<>>]
  /\ ncmds = 0
  /\ nwrites = 0
  /\ nconns = 0
  /\ target \in Eps

Next ==
  \/ Accept
  \/ ClientClose
  \/ EofReset
  \/ EofAttached
  \/ \E op \in OpRequests : HandleOp(op)
  \/ \E h \in CmdRequests : h.ep = target /\ HandleCmd(h)
  \/ \E n \in HeaderReads, c \in UrbCommands : ReadFails(n, c)
  \/ \E part \in {"body", "payload"} : ReadBlocks(part)
  \/ EofBlocked
  \/ \E n \in 0..MaxPacket, w \in WriteOutcomes : Write(target, n, w)

Spec == Init /\ [][Next]_vars

\* ------------------------------------------------ the drain alone
\* The drain loop of try_send_pending started on any bytes_requested and any
\* IN queue of endpoint 0: up to MaxChunks chunks of 0..MaxPacket bytes each,
\* in any order of lengths.
ChunkLengths == UNION {[1..k -> 0..MaxPacket] : k \in 0..MaxChunks}
QueueOf(lens) == [i \in 1..Len(lens) |-> Bytes(10 * i, lens[i])]

DrainInit ==
  /\ connection = "Some" /\ reset = FALSE /\ panicked = FALSE
  /\ blocked = FALSE /\ client = "open"
  /\ target = 0
  /\ seqnum = [e \in Eps |-> 0]
  /\ setup_flag = [e \in Eps |-> FALSE]
  /\ \E br \in 0..MaxLen :
       bytes_requested = [e \in Eps |-> IF e = target THEN br ELSE None]
  /\ \E lens \in ChunkLengths :
       in_data = [e \in Eps |-> IF e = target THEN QueueOf(lens) ELSE <<>>]
  /\ out_data = [e \in Eps |-> <<>>]
  /\ last = "init" /\ req = <<>> /\ wire = <<>>
  /\ imported = TRUE /\ lists = 0
  /\ urb = [e \in Eps |-> NoUrb]
  /\ urb_rets = [e \in Eps |-> 0]
  /\ written = [e \in Eps |-> 0]
  /\ delivered = [e \in Eps |-> <<>>]
  /\ ncmds = 0 /\ nwrites = 0 /\ nconns = 1

\* One run of the loop: the output buffer goes to `delivered`, the queue left
\* to in_data; a failed assertion or an underflow of bytes_left panics.
DrainStep ==
  /\ last = "init"
  /\ LET r == drain(in_data[target], <<>>, bytes_requested[target]) IN
     /\ in_data' = [in_data EXCEPT ![target] = r.data]
     /\ delivered' = [delivered EXCEPT ![target] = r.out_buf]
     /\ panicked' = ~r.ok
  /\ last' = "drain"
  /\ req' = [requested |-> bytes_requested[target], data |-> in_data[target]]
  /\ UNCHANGED <<connection, reset, blocked, client, seqnum, setup_flag,
                 bytes_requested, out_data>>
  /\ UNCHANGED <<wire, imported, lists, urb, urb_rets, written, ncmds, nwrites,
                 nconns, target>>

DrainNext == DrainStep

SpecDrain == DrainInit /\ [][DrainNext]_vars

\* ============================================================ claims

RetFrames == {i \in 1..Len(wire) : wire[i].frame.kind = "urb"}
OpFrames == {i \in 1..Len(wire) : wire[i].frame.kind = "op"}
IsCmdStep == last = "cmd" /\ ~panicked
IsOp(code) == last = "op" /\ req.command = code

\* C1: no CMD_SUBMIT is answered by two or more RET_SUBMIT frames: for every
\* endpoint, the IN CMD_SUBMIT last recorded on it has had at most one
\* RET_SUBMIT emitted for it (an OUT CMD_SUBMIT never has one).
C1_AtMostOneRet == \A e \in Eps : urb_rets[e] <= 1

\* C2: every RET_SUBMIT written carries the seqnum, direction, ep and devid of
\* the CMD_SUBMIT it answers (the IN CMD_SUBMIT recorded on its endpoint).
C2_RetEchoesRequest ==
  \A i \in RetFrames :
    LET f == wire[i].frame
        u == urb[f.ep]
    IN /\ f.seqnum = u.seqnum
       /\ f.direction = u.direction
       /\ f.ep = u.ep
       /\ f.devid = u.devid

\* C3: the step that processes an OUT CMD_SUBMIT for an endpoint with an OUT
\* direction also writes one RET_SUBMIT with status 0 and actual_length equal
\* to the payload length.
C3_OutAnsweredInStep ==
  (IsCmdStep /\ req.direction = DIR_OUT /\ get_endpoint_ok(req.ep)
     /\ get_out_ok(req.ep))
  => /\ Len(wire) = 1
     /\ wire[1].frame.kind = "urb"
     /\ wire[1].frame.status = 0
     /\ wire[1].frame.actual_length = Len(req.data)

\* C4: the RET_SUBMIT payloads of an endpoint, concatenated, are a prefix of
\* the bytes written to it; while the bus runs, payloads delivered followed by
\* the IN queue are exactly the bytes written, in order (so the tail of a
\* split chunk is at the front of the queue, next to be delivered).
C4_InStreamPreserved ==
  \A e \in Eps :
    /\ IsPrefix(delivered[e], Bytes(0, written[e]))
    /\ ~panicked => delivered[e] \o Flatten(in_data[e]) = Bytes(0, written[e])

\* C4 witness: a chunk was split by a shorter request and this IN URB
\* delivered its tail together with the next chunk.
C4_Witness ==
  /\ IsCmdStep /\ req.direction = DIR_IN
  /\ Len(wire) = 1 /\ wire[1].frame.data = <<2, 3>>
  /\ delivered[req.ep] = <<1, 2, 3>>

\* The chunks a step appended to the OUT queue of endpoint e.
NewOut(e) == SubSeq(out_data'[e], Len(out_data[e]) + 1, Len(out_data'[e]))

\* chs are consecutive chunks of at most n bytes, all but the last of n bytes,
\* none empty.
WellChunked(chs, n) ==
  \A i \in 1..Len(chs) :
    /\ Len(chs[i]) >= 1 /\ Len(chs[i]) <= n
    /\ i < Len(chs) => Len(chs[i]) = n

IsCmdOn(dirs) ==
  /\ ncmds' = ncmds + 1 /\ ~panicked'
  /\ req'.direction \in dirs
  /\ get_endpoint_ok(req'.ep) /\ get_out_ok(req'.ep)

C6_SeqnumNeverDecreases == [][\A e \in Eps : seqnum'[e] >= seqnum[e]]_vars

\* C7: right after an EOF the stream is dropped and the bus is in Reset; the
\* bus is in Reset whenever it holds no stream; a connection starts in Reset;
\* an op request is decoded only in Reset and a CMD_SUBMIT is processed only
\* after an IMPORT was handled on the same connection.
C7_DisconnectResets ==
  /\ last = "eof" => connection = "None" /\ reset
  /\ connection = "None" => reset
  /\ last = "accept" => reset /\ connection = "Some"
  /\ last = "op" => \A i \in 1..Len(wire) : wire[i].in_reset
  /\ last = "cmd" => imported /\ connection = "Some"

\* C7 witness: a CMD_SUBMIT is processed on the second connection, after the
\* first one was closed while attached.
C7_Witness == last = "cmd" /\ nconns = 2 /\ imported /\ ncmds = 2

\* C8: an IMPORT for a bus id other than "1-1" is answered with a non-zero
\* status and leaves the bus in Reset.
C8_ImportChecksBusId ==
  (IsOp(OP_REQ_IMPORT) /\ req.bus_id /= BUS_ID)
  => /\ reset
     /\ Len(wire) = 1 /\ wire[1].frame.status /= 0

C10_FramesMatchPhase ==
  /\ \A i \in RetFrames : ~wire[i].in_reset
  /\ \A i \in OpFrames : wire[i].in_reset

\* C11: when the client drops the connection while an IN CMD_SUBMIT recorded
\* on an endpoint has had no RET_SUBMIT, the poll that reads the EOF leaves
\* the bus in Reset, and neither that poll nor a later device-stack write to
\* the endpoint panics.
C11_DroppedUrbNoPanic ==
  \A e \in Eps :
    (client /= "open" /\ urb[e] /= NoUrb /\ urb_rets[e] = 0
       /\ last \in {"eof", "write"})
    => /\ ~panicked
       /\ last = "eof" => reset /\ connection = "None"

\* C12: a short header read or an unknown URB command does not abort the
\* bus: after it the bus runs on, in Reset, without the connection.
C12_ViolationDropsConnectionOnly ==
  last = "malformed" => ~panicked /\ reset /\ connection = "None"

\* C13: no call of handle_socket is left waiting inside a read.
C13_HandlerNeverBlocks == ~blocked

\* A step that called try_send_pending and returned: an IN CMD_SUBMIT on an
\* allocated endpoint, or a device-stack write.
IsDrainCall ==
  /\ ~panicked'
  /\ \/ /\ ncmds' = ncmds + 1 /\ req'.direction = DIR_IN
        /\ get_endpoint_ok(req'.ep)
     \/ nwrites' = nwrites + 1

\* What that call found on the endpoint: bytes_requested and the IN queue.
SeenRequested ==
  IF ncmds' = ncmds + 1 THEN req'.transfer_buffer_length
  ELSE bytes_requested[req'.ep]
SeenData ==
  IF ncmds' = ncmds + 1 THEN in_data[req'.ep]
  ELSE Append(in_data[req'.ep], Bytes(written[req'.ep], req'.len))

\* try_send_pending writes a RET_SUBMIT only with bytes_requested set and the
\* IN direction ready to send; otherwise it leaves the IN queue as it was.
GuardedDrain ==
  IsDrainCall =>
    /\ wire' /= <<>> => /\ SeenRequested /= None
                        /\ get_in_ok(req'.ep)
                        /\ is_rts(SeenData, max_packet_size(req'.ep))
    /\ wire' = <<>> => in_data'[req'.ep] = SeenData

IsInCmd == ncmds' = ncmds + 1 /\ ~panicked' /\ req'.direction = DIR_IN

\* C14 as stated: try_send_pending is guarded as above, and an IN CMD_SUBMIT
\* processed right after a drain of its endpoint, with no write since, gets no
\* response.
C14_NoResponseWithoutNewData ==
  [][/\ GuardedDrain
     /\ (IsInCmd /\ RetFrames /= {} /\ wire[1].frame.ep = req'.ep)
          => wire' = <<>>]_vars

\* C14 amended: try_send_pending is guarded as above; an IN CMD_SUBMIT that
\* finds the IN queue empty gets no response, and a RET_SUBMIT for an endpoint
\* whose queue was empty is written only by a device-stack write.
C14_NoResponseOnEmptyQueue ==
  [][/\ GuardedDrain
     /\ (IsInCmd /\ in_data[req'.ep] = <<>>) => wire' = <<>>
     /\ (wire' /= <<>> /\ wire'[1].frame.kind = "urb"
           /\ in_data[wire'[1].frame.ep] = <<>>) => nwrites' = nwrites + 1]_vars

\* C14 witness: after a drain emptied the queue, a second IN CMD_SUBMIT got
\* no response.
C14_Witness ==
  /\ IsCmdStep /\ req.direction = DIR_IN /\ get_in_ok(req.ep)
  /\ wire = <<>> /\ in_data[req.ep] = <<>>
  /\ delivered[req.ep] /= <<>>
  /\ bytes_requested[req.ep] = req.transfer_buffer_length

\* C15: every RET_SUBMIT a drain writes has actual_length = len(payload) =
\* min(bytes_requested, bytes queued on the IN queue).
C15_ActualLengthIsMin ==
  [][(IsDrainCall /\ wire' /= <<>>) =>
       LET f == wire'[1].frame IN
       /\ f.actual_length = Len(f.data)
       /\ Len(f.data) = Min(SeenRequested, Len(Flatten(SeenData)))]_vars

\* C15 witness: a short response (the request exceeds the one byte queued)
\* written after a truncated one (the earlier request was for less than was
\* queued).
C15_Witness ==
  /\ last = "cmd" /\ ~panicked /\ req.direction = DIR_IN
  /\ Len(wire) = 1
  /\ wire[1].frame.actual_length = 1 /\ req.transfer_buffer_length = MaxLen
  /\ Len(delivered[req.ep]) > 1

\* C16: processing a CMD_SUBMIT on an allocated endpoint pushes the 8 SETUP
\* bytes to the endpoint's OUT queue and sets setup_flag exactly when the
\* setup field is non-zero and the endpoint is 0; otherwise it pushes no SETUP
\* bytes and leaves setup_flag as it was.
C16_SetupOnlyOnEndpoint0 ==
  [][(ncmds' = ncmds + 1 /\ ~panicked' /\ get_endpoint_ok(req'.ep)) =>
       LET e == req'.ep
           new == NewOut(e)
           wants == req'.setup /= ZeroSetup /\ e = 0
           pushed == new /= <<>> /\ Head(new) = req'.setup
                     /\ Len(Head(new)) = 8
       IN /\ pushed <=> wants
          /\ wants => setup_flag'[e]
          /\ ~wants => setup_flag'[e] = setup_flag[e]]_vars

\* C17: a CMD_SUBMIT for an endpoint that is not allocated writes no frame,
\* does not panic and changes neither the phase, nor the connection, nor any
\* endpoint's seqnum, setup_flag, bytes_requested or queues.
C17_UnallocatedDropped ==
  [][(ncmds' = ncmds + 1 /\ ~get_endpoint_ok(req'.ep)) =>
       /\ wire' = <<>>
       /\ ~panicked'
       /\ UNCHANGED <<connection, reset, seqnum, setup_flag, bytes_requested,
                      in_data, out_data>>]_vars

\* C17 witness: two frames for the unallocated endpoint were dropped, the
\* second one with a SETUP packet and a direction that is neither IN nor OUT.
C17_Witness ==
  /\ last = "cmd" /\ ~get_endpoint_ok(req.ep) /\ ~panicked
  /\ req.setup /= ZeroSetup /\ req.direction \notin {DIR_OUT, DIR_IN}
  /\ ncmds = 2 /\ ~reset /\ connection = "Some"

\* C18: bytes_requested is none on an endpoint right after a RET_SUBMIT for it
\* was written, and on every endpoint right after a disconnect.
C18_RequestClearedAfterRet ==
  /\ \A i \in RetFrames : bytes_requested[wire[i].frame.ep] = None
  /\ last = "eof" => \A e \in Eps : bytes_requested[e] = None

\* C19: a CMD_SUBMIT for an allocated endpoint that has no OUT direction
\* although the frame is OUT or carries a SETUP packet, or whose direction is
\* neither 0 nor 1, does not panic the bus and leaves it Attached with the
\* connection open.
C19_DeviceErrorNoPanic ==
  (/\ last = "cmd" /\ get_endpoint_ok(req.ep)
   /\ \/ req.direction \notin {DIR_OUT, DIR_IN}
      \/ /\ ~get_out_ok(req.ep)
         /\ (req.direction = DIR_OUT \/ req.setup /= ZeroSetup))
  => ~panicked /\ ~reset /\ connection = "Some"

IsSuffix(s, t) == Len(s) <= Len(t) /\ SubSeq(t, Len(t) - Len(s) + 1, Len(t)) = s

\* C20: the drain loop never fails its assertion and never underflows; the
\* queue it leaves is the queue it found without the chunks it consumed, and
\* when it consumed a chunk only in part the output buffer holds exactly
\* bytes_requested bytes and the chunk's tail, at the front, is not empty.
C20_DrainAssertionHolds ==
  last = "drain" =>
    LET before == req.data
        after == in_data[target]
        out_buf == delivered[target]
        k == Len(before) - Len(after)
    IN /\ ~panicked
       /\ k >= 0
       /\ Len(out_buf) <= req.requested
       /\ out_buf \o Flatten(after) = Flatten(before)
       /\ after /= <<>> =>
            /\ Tail(after) = SubSeq(before, k + 2, Len(before))
            /\ \/ Head(after) = before[k + 1]
               \/ /\ Head(after) /= <<>>
                  /\ IsSuffix(Head(after), before[k + 1])
                  /\ Len(out_buf) = req.requested

\* C20 witness: the chunks consumed sum exactly to bytes_requested, the next
\* chunk was popped with nothing left to read and went back whole, with one
\* more chunk behind it.
C20_Witness ==
  /\ last = "drain" /\ ~panicked
  /\ Len(req.data) = 3 /\ Len(req.data[1]) = req.requested
  /\ req.requested > 0
  /\ Len(in_data[target]) = 2 /\ Head(in_data[target]) /= <<>>

\* C21: after every step the bus is out of reset only while it holds a
\* connection; reset goes from true to false only in the step that handles an
\* IMPORT, on a connection held before and after; the connection is dropped
\* only by a step that ends in Reset; and a connection is accepted only when
\* none is held.
C21_AttachedHoldsConnection ==
  [][/\ ~reset' => connection' = "Some"
     /\ (reset /\ ~reset') =>
          /\ last' = "op" /\ req'.command = OP_REQ_IMPORT
          /\ connection = "Some" /\ connection' = "Some"
     /\ (connection = "Some" /\ connection' = "None") => reset'
     /\ nconns' = nconns + 1 =>
          connection = "None" /\ connection' = "Some"]_vars

\* C21 witness: the second connection, accepted after the first was dropped
\* while attached, has just left Reset on its IMPORT.
C21_Witness ==
  /\ IsOp(OP_REQ_IMPORT) /\ ~reset /\ connection = "Some"
  /\ nconns = 2 /\ ncmds > 0

====
